---- MODULE Spec2Model ----
(***************************************************************************)
(* rss2maildir: feeds are downloaded, the entries not yet in the feed's    *)
(* cache and younger than days_to_remember are written to a maildir, and   *)
(* the cache (item id -> "%Y-%m-%d" date) is pruned and written back.      *)
(*                                                                         *)
(* Conventions of the model                                                *)
(*   - a Python str is a tuple of one-character strings;                   *)
(*   - a datetime.date is a record [year, month, day]; a "%Y-%m-%d" string *)
(*     is the triple <<year, month, day>> of its three number fields;      *)
(*   - a feedparser entry is a record whose DOMAIN is the set of keys the  *)
(*     entry has ("id" \in DOMAIN item  is  "id" in item);                 *)
(*   - None for a *_parsed value is the record None;                       *)
(*   - rss_feed.cache is [present |-> FALSE] for None, else                *)
(*     [present |-> TRUE, map |-> dict];                                   *)
(*   - a cache file is [state |-> "absent" | "malformed" | "ok", data],    *)
(*     data being the members of the JSON object it holds.                 *)
(***************************************************************************)
EXTENDS Integers, Sequences, FiniteSets, TLC

VARIABLES
    today,             \* the calendar day date.today() / datetime.now() yields
    cacheFile,         \* feed name -> the file <cache dir>/<name>.json
    maildir,           \* feed name -> the messages added to the feed's maildir, in order
    entries,           \* feed name -> the entries the feed's url serves
    days_to_remember,  \* defaults.days_to_remember of the configuration
    lock,              \* the process holding the lock on /tmp/rss2maildir.lock
    pc,                \* process -> position in main
    idx,               \* process -> index of the feed of the for loop of main
    cache,             \* process -> feed name -> rss_feed.cache
    new_entries,       \* process -> new_entries of download_feed
    k,                 \* process -> index in new_entries of the delivery loop
    outcome,           \* process -> how its last run ended (history)
    done,              \* process -> feeds whose loop body completed in this run (history)
    pass,              \* process -> what happened in the current feed's pass (history)
    runs,              \* number of processes that got the lock so far
    faults,            \* number of fetch, delivery and save failures so far
    straddled,         \* midnight has passed while a process was running (history)
    fn                 \* inputs and result of a single function call

mainVars == <<today, cacheFile, maildir, entries, days_to_remember,
              lock, pc, idx, cache, new_entries, k, outcome, done, pass,
              runs, faults, straddled>>

vars == <<mainVars, fn>>

-----------------------------------------------------------------------------
(* Bounds *)

MaxDay == 1
MaxDtr == 2
MaxRuns == 3
MaxTail == 2
MaxFnBatch == 2
MaxFaults == 1
NProcs == 2

-----------------------------------------------------------------------------
(* Strings *)

Str_https == <<"h", "t", "t", "p", "s", ":">>
Str_http == <<"h", "t", "t", "p", ":">>

startswith(s, prefix) ==
    /\ Len(s) >= Len(prefix)
    /\ SubSeq(s, 1, Len(prefix)) = prefix

removeprefix(s, prefix) ==
    IF startswith(s, prefix) THEN SubSeq(s, Len(prefix) + 1, Len(s)) ELSE s

-----------------------------------------------------------------------------
(* datetime.date, timedelta(days=n) as the integer n *)

None == [year |-> 0, month |-> 0, day |-> 0]

IsLeap(y) == (y % 4 = 0 /\ y % 100 # 0) \/ y % 400 = 0

DaysInMonth(y, m) ==
    IF m = 2 THEN (IF IsLeap(y) THEN 29 ELSE 28)
    ELSE IF m \in {4, 6, 9, 11} THEN 30 ELSE 31

DaysBeforeYear(y) ==
    365 * (y - 1) + ((y - 1) \div 4) - ((y - 1) \div 100) + ((y - 1) \div 400)

RECURSIVE DaysBeforeMonth(_, _)
DaysBeforeMonth(y, m) ==
    IF m = 1 THEN 0 ELSE DaysBeforeMonth(y, m - 1) + DaysInMonth(y, m - 1)

toordinal(d) == DaysBeforeYear(d.year) + DaysBeforeMonth(d.year, d.month) + d.day

date_sub(a, b) == toordinal(a) - toordinal(b)

NextDay(d) ==
    IF d.day < DaysInMonth(d.year, d.month)
    THEN [d EXCEPT !.day = d.day + 1]
    ELSE IF d.month < 12
         THEN [year |-> d.year, month |-> d.month + 1, day |-> 1]
         ELSE [year |-> d.year + 1, month |-> 1, day |-> 1]

Day0 == [year |-> 2024, month |-> 12, day |-> 30]

RECURSIVE DayN(_)
DayN(n) == IF n = 0 THEN Day0 ELSE NextDay(DayN(n - 1))

Days == {DayN(n) : n \in 0..MaxDay}

strftime(d) == <<d.year, d.month, d.day>>

strptime(s) ==
    [year |-> s[1], month |-> s[2], day |-> s[3]]

-----------------------------------------------------------------------------
(* item_id, rss_item_datetime, expire, extract_new_items *)

item_id_exits(item) == ~("id" \in DOMAIN item) /\ ~("link" \in DOMAIN item)

item_id(item) ==
    LET id == IF "id" \in DOMAIN item THEN item.id ELSE item.link
    IN  removeprefix(removeprefix(id, Str_https), Str_http)

rss_item_datetime(item, now) ==
    LET dt == IF "published_parsed" \in DOMAIN item THEN item.published_parsed
              ELSE IF "updated_parsed" \in DOMAIN item THEN item.updated_parsed
              ELSE None
    IN  IF dt = None THEN now ELSE dt

\* expire with the comparison dist <= threshold
expire_le(c, dtr, now) ==
    LET keep == {l \in DOMAIN c : date_sub(now, strptime(c[l])) <= dtr}
    IN  [l \in keep |-> c[l]]

expire(c, dtr, now) ==
    LET keep == {l \in DOMAIN c : date_sub(now, strptime(c[l])) < dtr}
    IN  [l \in keep |-> c[l]]

\* rss_feed.cache initialised to an empty dict
EmptyCache == [present |-> TRUE, map |-> << >>]

NoCache == [present |-> FALSE]
SomeCache(m) == [present |-> TRUE, map |-> m]

RECURSIVE extract_loop(_, _, _, _, _)
extract_loop(new_list, c, dtr, now, acc) ==
    IF new_list = << >> THEN acc
    ELSE LET item == Head(new_list)
             new_id == item_id(item)
             fresh == IF ~c.present \/ new_id \notin DOMAIN c.map
                      THEN date_sub(now, rss_item_datetime(item, now)) < dtr
                      ELSE FALSE
         IN  extract_loop(Tail(new_list), c, dtr, now,
                          IF fresh THEN Append(acc, item) ELSE acc)

\* extract_new_items with the comparison delta <= threshold
extract_new_items_le(new_list, c, dtr, now) ==
    extract_loop(new_list, c, dtr + 1, now, << >>)

extract_new_items(new_list, c, dtr, now) ==
    IF new_list = << >> THEN << >>
    ELSE extract_loop(new_list, c, dtr, now, << >>)

-----------------------------------------------------------------------------
(* json.dumps / json.loads of a dict of str -> str: the text of a JSON     *)
(* object is the set of its <<key, value>> members.                        *)

json_dumps(m) == {<<l, m[l]>> : l \in DOMAIN m}

json_loads(data) ==
    [l \in {e[1] : e \in data} |-> (CHOOSE e \in data : e[1] = l)[2]]

NoFile == [state |-> "absent", data |-> {}]
BadFile == [state |-> "malformed", data |-> {}]
JsonFile(data) == [state |-> "ok", data |-> data]

\* save_object: the file after the call; result "failed" is open() raising,
\* "partial" is the write raising after open(filename, 'wb') truncated the file.
save_object(obj, old, result) ==
    CASE result = "ok" -> JsonFile(obj)
      [] result = "failed" -> old
      [] result = "partial" -> BadFile

SaveResults == {"ok", "failed", "partial"}

-----------------------------------------------------------------------------
(* Configuration, feed contents *)

\* Process slots: processes are interchangeable, a new process is given the
\* lowest slot no running process has.
Procs == 1..NProcs
NoProc == 0

Feeds == <<"F", "G">>
FeedNames == {Feeds[i] : i \in 1..Len(Feeds)}

Url_a == <<"/", "/", "a">>

\* id with a scheme, published
ItemA == [title |-> "A", id |-> Str_http \o Url_a, published_parsed |-> Day0]
\* id without a scheme, no timestamp at all
ItemB == [title |-> "B", id |-> <<"b">>]
\* published_parsed present but None (unparseable date), updated
ItemC == [title |-> "C", id |-> <<"c">>, published_parsed |-> None,
          updated_parsed |-> Day0]
\* no id: the link is used; the same resource as ItemA served with https
ItemA2 == [title |-> "A", link |-> Str_https \o Url_a, updated_parsed |-> Day0]
\* neither id nor link
ItemN == [title |-> "N", published_parsed |-> Day0]

Batches ==
    { << >>,
      <<ItemB>>,
      <<ItemA, ItemB, ItemC>>,
      <<ItemA, ItemA2>>,
      <<ItemA, ItemN>> }

CurFeed(p) == Feeds[idx[p]]

NoPass == [feed |-> "", loaded |-> NoFile, loadDay |-> Day0, fetch |-> "none",
           save |-> "none", saveDay |-> Day0]

\* An entry's description is a sequence of HTML nodes: text, a hyperlink
\* <a href=...>text</a>, or an image <img alt=... src=...>.
TextNode(t) == [tag |-> "text", text |-> t]
ANode(t, href) == [tag |-> "a", text |-> t, href |-> href]
ImgNode(alt, src) == [tag |-> "img", alt |-> alt, src |-> src]

Str_hi == <<"h", "i">>
Url_x == Str_http \o <<"/", "/", "x">>
Url_i == Str_http \o <<"/", "/", "i">>

\* the markdown html2text writes for one node; with ignore_links the target
\* of a hyperlink is dropped, with ignore_images the image is
html2text_node(node, ignore) ==
    CASE node.tag = "text" -> node.text
      [] node.tag = "a" ->
            IF ignore THEN node.text
            ELSE <<"[">> \o node.text \o <<"]", "(">> \o node.href \o <<")">>
      [] node.tag = "img" ->
            IF ignore THEN << >>
            ELSE <<"!", "[">> \o node.alt \o <<"]", "(">> \o node.src \o <<")">>

RECURSIVE html2text_inline(_, _)
html2text_inline(description, ignore) ==
    IF description = << >> THEN << >>
    ELSE html2text_node(Head(description), ignore)
             \o html2text_inline(Tail(description), ignore)

\* converter.handle(rss.description): the rendering, which html2text ends
\* with a blank line
html2text_handle(description, links) ==
    html2text_inline(description, ~links) \o <<"\n", "\n">>

\* "\n".join(message_texts)
RECURSIVE join(_, _)
join(sep, texts) ==
    IF texts = << >> THEN << >>
    ELSE IF Len(texts) = 1 THEN texts[1]
    ELSE texts[1] \o sep \o join(sep, Tail(texts))

\* message_texts with the link appended only when links are wanted
message_texts_if_links(item, links) ==
    (IF "description" \in DOMAIN item
     THEN <<html2text_handle(item.description, links)>> ELSE << >>)
    \o (IF "link" \in DOMAIN item /\ links THEN <<item.link>> ELSE << >>)

\* message_texts of update_maildir
message_texts(item, links) ==
    (IF "description" \in DOMAIN item
     THEN <<html2text_handle(item.description, links)>> ELSE << >>)
    \o (IF "link" \in DOMAIN item THEN <<item.link>> ELSE << >>)

\* the payload of the message, before encode('utf-8')
message_body(item, links) == join(<<"\n">>, message_texts(item, links))

\* feed.links of the configured feeds
FeedLinks == [f \in FeedNames |-> f = "F"]

\* what update_maildir adds to the maildir: the entry, its Date header's day
\* and the payload
Message(item, now, links) ==
    [item |-> item, date |-> rss_item_datetime(item, now),
     body |-> message_body(item, links)]

-----------------------------------------------------------------------------
(* Initial state: no process started, no cache file, empty maildirs *)

NothingRun ==
    /\ today = Day0
    /\ cacheFile = [f \in FeedNames |-> NoFile]
    /\ maildir = [f \in FeedNames |-> << >>]
    /\ lock = NoProc
    /\ pc = [p \in Procs |-> "idle"]
    /\ idx = [p \in Procs |-> 1]
    /\ cache = [p \in Procs |-> [f \in FeedNames |-> NoCache]]
    /\ new_entries = [p \in Procs |-> << >>]
    /\ k = [p \in Procs |-> 0]
    /\ outcome = [p \in Procs |-> "none"]
    /\ done = [p \in Procs |-> {}]
    /\ pass = [p \in Procs |-> NoPass]
    /\ runs = 0
    /\ faults = 0
    /\ straddled = FALSE

\* F serves any of Batches, G one entry without timestamps; one retention
\* window (defaults.days_to_remember) for both feeds
MainInit ==
    /\ NothingRun
    /\ entries \in [FeedNames -> Batches]
    /\ entries["G"] = <<ItemB>>
    /\ days_to_remember \in 0..MaxDtr

FnIdle == [op |-> "none"]

Init == MainInit /\ fn = FnIdle

-----------------------------------------------------------------------------
(* The process ends (normal end of main, sys.exit, or an uncaught          *)
(* exception): its lock on the lock file is released by the system.        *)

Terminate(p, how) ==
    /\ pc' = [pc EXCEPT ![p] = "idle"]
    /\ outcome' = [outcome EXCEPT ![p] = how]
    /\ lock' = IF lock = p THEN NoProc ELSE lock

\* lock_file that returns the handle whether or not lockf raised
lock_file_unchecked(p) == p

\* lock_file: the handle (the process, now the holder) or None
lock_file(p) == IF lock = NoProc THEN p ELSE NoProc

\* main up to the for loop: a new process p starts, takes the lock or exits
main_lock(p) ==
    /\ pc[p] = "idle"
    /\ \A q \in 1..(p - 1) : pc[q] # "idle"
    /\ runs < MaxRuns
    /\ runs' = IF lock_file(p) = NoProc THEN runs ELSE runs + 1
    /\ idx' = [idx EXCEPT ![p] = 1]
    /\ cache' = [cache EXCEPT ![p] = [f \in FeedNames |-> NoCache]]
    /\ new_entries' = [new_entries EXCEPT ![p] = << >>]
    /\ k' = [k EXCEPT ![p] = 0]
    /\ done' = [done EXCEPT ![p] = {}]
    /\ pass' = [pass EXCEPT ![p] = NoPass]
    /\ IF lock_file(p) = NoProc
       THEN Terminate(p, "lock_held")
       ELSE /\ lock' = lock_file(p)
            /\ pc' = [pc EXCEPT ![p] = "load"]
            /\ outcome' = [outcome EXCEPT ![p] = "running"]
    /\ UNCHANGED <<today, cacheFile, maildir, entries, days_to_remember, faults, straddled, fn>>

\* load_cache(feed)
load_cache(p) ==
    LET f == CurFeed(p)
        file == cacheFile[f]
    IN  /\ pc[p] = "load"
        /\ pass' = [pass EXCEPT ![p] = [NoPass EXCEPT !.feed = f, !.loaded = file,
                                                      !.loadDay = today]]
        /\ IF file.state = "malformed"
           THEN /\ Terminate(p, "crash_load")
                /\ UNCHANGED cache
           ELSE /\ pc' = [pc EXCEPT ![p] = "download"]
                /\ cache' = IF file.state = "ok"
                            THEN [cache EXCEPT ![p][f] = SomeCache(json_loads(file.data))]
                            ELSE cache
                /\ UNCHANGED <<outcome, lock>>
        /\ UNCHANGED <<today, cacheFile, maildir, entries, days_to_remember, idx,
                       new_entries, k, done, runs, faults, straddled, fn>>

\* the fetch failure handled by starting from an empty cache
fetch_failed_reset(p) ==
    /\ pass' = [pass EXCEPT ![p].fetch = "failed"]
    /\ pc' = [pc EXCEPT ![p] = "write"]
    /\ cache' = [cache EXCEPT ![p][CurFeed(p)] = SomeCache(<< >>)]
    /\ UNCHANGED <<new_entries, k, outcome, lock>>

\* the fetch failure left uncaught: the exception ends the process
fetch_failed_fatal(p) ==
    /\ pass' = [pass EXCEPT ![p].fetch = "failed"]
    /\ Terminate(p, "crash_fetch")
    /\ UNCHANGED <<new_entries, k, cache>>

\* download_feed when urlopen / read / decode / parse raises: return
fetch_failed(p) ==
    /\ pass' = [pass EXCEPT ![p].fetch = "failed"]
    /\ pc' = [pc EXCEPT ![p] = "write"]
    /\ UNCHANGED <<new_entries, k, cache, outcome, lock>>

\* update_maildir: the maildir after mbox.add(msg)
update_maildir(md, item, now, links) == Append(md, Message(item, now, links))

\* feed.cache[iid] = sdt
dict_set(m, key, value) ==
    [l \in DOMAIN m \cup {key} |-> IF l = key THEN value ELSE m[l]]

\* item_id computed only in the delivery loop: the first entry of the batch
\* is delivered and recorded before the entry without id and link is met
item_id_failed_late(p) ==
    LET f == CurFeed(p)
        first == entries[f][1]
        m == IF cache[p][f].present THEN cache[p][f].map ELSE << >>
    IN  /\ Terminate(p, "exit_item_id")
        /\ IF item_id_exits(first)
           THEN UNCHANGED <<maildir, cache>>
           ELSE /\ maildir' = [maildir EXCEPT ![f] =
                                  update_maildir(@, first, today, FeedLinks[f])]
                /\ cache' = [cache EXCEPT ![p][f] =
                                SomeCache(dict_set(m, item_id(first),
                                    strftime(rss_item_datetime(first, today))))]
        /\ UNCHANGED <<new_entries, k>>

\* item_id of an entry without id and link, called by extract_new_items:
\* sys.exit(20)
item_id_failed(p) ==
    /\ Terminate(p, "exit_item_id")
    /\ UNCHANGED <<new_entries, k, cache, maildir>>

\* download_feed up to the delivery loop: the fetch, then extract_new_items
download_feed(p) ==
    LET f == CurFeed(p)
        items == entries[f]
        ne == extract_new_items(items, cache[p][f], days_to_remember, today)
    IN  /\ pc[p] = "download"
        /\ \/ /\ faults < MaxFaults
              /\ faults' = faults + 1
              /\ fetch_failed(p)
              /\ UNCHANGED maildir
           \/ /\ \E i \in 1..Len(items) : item_id_exits(items[i])
              /\ pass' = [pass EXCEPT ![p].fetch = "ok"]
              /\ item_id_failed(p)
              /\ UNCHANGED faults
           \/ /\ \A i \in 1..Len(items) : ~item_id_exits(items[i])
              /\ pass' = [pass EXCEPT ![p].fetch = "ok"]
              /\ new_entries' = [new_entries EXCEPT ![p] = ne]
              /\ k' = [k EXCEPT ![p] = 1]
              /\ cache' = IF ne # << >> /\ ~cache[p][f].present
                          THEN [cache EXCEPT ![p][f] = SomeCache(<< >>)]
                          ELSE cache
              /\ pc' = [pc EXCEPT ![p] = IF ne # << >> THEN "deliver" ELSE "write"]
              /\ UNCHANGED <<maildir, outcome, lock, faults>>
        /\ UNCHANGED <<today, cacheFile, entries, days_to_remember, idx,
                       done, runs, straddled, fn>>

\* update_maildir raising with the cache of the feed saved on the way out
delivery_failed_saved(p) ==
    /\ Terminate(p, "crash_deliver")
    /\ cacheFile' = [cacheFile EXCEPT ![CurFeed(p)] =
                        JsonFile(json_dumps(cache[p][CurFeed(p)].map))]
    /\ UNCHANGED <<maildir, cache, k>>

\* update_maildir raising with the identifier recorded before the call
delivery_failed_recorded(p) ==
    /\ Terminate(p, "crash_deliver")
    /\ cache' = [cache EXCEPT ![p][CurFeed(p)] =
                    SomeCache(dict_set(@.map, item_id(new_entries[p][k[p]]),
                                       strftime(today)))]
    /\ UNCHANGED <<maildir, k, cacheFile>>

\* update_maildir raised: nothing catches it, the process ends
delivery_failed(p) ==
    /\ Terminate(p, "crash_deliver")
    /\ UNCHANGED <<maildir, cache, k, cacheFile>>

\* one iteration of the delivery loop of download_feed
deliver_item(p) ==
    LET f == CurFeed(p)
        item == new_entries[p][k[p]]
        iid == item_id(item)
        sdt == strftime(rss_item_datetime(item, today))
    IN  /\ pc[p] = "deliver"
        /\ \/ /\ maildir' = [maildir EXCEPT ![f] = update_maildir(@, item, today, FeedLinks[f])]
              /\ cache' = [cache EXCEPT ![p][f] = SomeCache(dict_set(@.map, iid, sdt))]
              /\ k' = [k EXCEPT ![p] = @ + 1]
              /\ pc' = [pc EXCEPT ![p] = IF k[p] < Len(new_entries[p])
                                         THEN "deliver" ELSE "write"]
              /\ UNCHANGED <<cacheFile, outcome, lock, faults>>
           \/ /\ faults < MaxFaults
              /\ faults' = faults + 1
              /\ delivery_failed(p)
        /\ UNCHANGED <<today, entries, days_to_remember, idx, new_entries,
                       done, pass, runs, straddled, fn>>

\* write_cache(feed)
write_cache(p) ==
    LET f == CurFeed(p)
        c == cache[p][f]
    IN  /\ pc[p] = "write"
        /\ pc' = [pc EXCEPT ![p] = "next"]
        /\ \/ /\ ~c.present
              /\ pass' = [pass EXCEPT ![p].save = "skipped", ![p].saveDay = today]
              /\ UNCHANGED <<cacheFile, faults>>
           \/ /\ c.present
              /\ \E result \in SaveResults :
                    /\ result # "ok" => faults < MaxFaults
                    /\ cacheFile' = [cacheFile EXCEPT ![f] =
                          save_object(json_dumps(expire(c.map, days_to_remember, today)),
                                      @, result)]
                    /\ pass' = [pass EXCEPT ![p].save = result, ![p].saveDay = today]
                    /\ faults' = IF result = "ok" THEN faults ELSE faults + 1
        /\ UNCHANGED <<today, maildir, entries, days_to_remember, lock, idx, cache,
                       new_entries, k, outcome, done, runs, straddled, fn>>

\* the for loop of main moves to the next feed, or main returns
main_next(p) ==
    /\ pc[p] = "next"
    /\ done' = [done EXCEPT ![p] = @ \cup {CurFeed(p)}]
    /\ IF idx[p] < Len(Feeds)
       THEN /\ idx' = [idx EXCEPT ![p] = @ + 1]
            /\ pc' = [pc EXCEPT ![p] = "load"]
            /\ UNCHANGED <<outcome, lock>>
       ELSE /\ Terminate(p, "done")
            /\ UNCHANGED idx
    /\ UNCHANGED <<today, cacheFile, maildir, entries, days_to_remember, cache,
                   new_entries, k, pass, runs, faults, straddled, fn>>

\* midnight
Tick ==
    /\ date_sub(today, Day0) < MaxDay
    /\ today' = NextDay(today)
    /\ straddled' = (straddled \/ \E p \in Procs : pc[p] # "idle")
    /\ UNCHANGED <<cacheFile, maildir, entries, days_to_remember, lock, pc, idx,
                   cache, new_entries, k, outcome, done, pass, runs, faults, fn>>

Next ==
    \/ \E p \in Procs : main_lock(p)
    \/ \E p \in Procs : load_cache(p)
    \/ \E p \in Procs : download_feed(p)
    \/ \E p \in Procs : deliver_item(p)
    \/ \E p \in Procs : write_cache(p)
    \/ \E p \in Procs : main_next(p)
    \/ Tick

Spec == Init /\ [][Next]_vars

-----------------------------------------------------------------------------
(* Single calls of item_id, expire and extract_new_items on drawn inputs *)

FnIds == {Str_http \o Url_a, <<"b">>}

FnItems ==
    {[title |-> "T", id |-> i, published_parsed |-> d] : i \in FnIds, d \in Days}
    \cup {ItemB, ItemC, ItemA2}

RECURSIVE SeqsUpTo(_, _)
SeqsUpTo(S, n) ==
    IF n = 0 THEN {<< >>}
    ELSE LET shorter == SeqsUpTo(S, n - 1)
         IN  shorter \cup {Append(q, x) : q \in shorter, x \in S}

\* the dicts a cache file can hold: canonical ids to "%Y-%m-%d" strings
Dicts(ids) ==
    UNION {[dom -> {strftime(d) : d \in Days}] : dom \in SUBSET ids}

FnCanonIds == {item_id([id |-> i]) : i \in FnIds}

\* what follows the scheme of a raw id: up to MaxTail of these pieces
Pieces == {Str_http, Str_https, Url_a}

RECURSIVE Concat(_)
Concat(q) == IF q = << >> THEN << >> ELSE Head(q) \o Concat(Tail(q))

RawTails == {Concat(q) : q \in SeqsUpTo(Pieces, MaxTail)}

\* descriptions: empty, text, a hyperlink, text and hyperlink, an image
\* after text
FnDescriptions ==
    { << >>,
      <<TextNode(Str_hi)>>,
      <<ANode(Str_hi, Url_x)>>,
      <<TextNode(<<"a", " ">>), ANode(Str_hi, Url_x)>>,
      <<TextNode(Str_hi), ImgNode(<<"p">>, Url_i)>> }

FnLinks == {<< >>, Str_http \o Url_a, Url_x}

\* entries with and without description, with and without link
FnBodyItems ==
    {[title |-> "T", id |-> <<"b">>]}
    \cup {[title |-> "T", id |-> <<"b">>, description |-> d] : d \in FnDescriptions}
    \cup {[title |-> "T", id |-> <<"b">>, link |-> l] : l \in FnLinks}
    \cup {[title |-> "T", id |-> <<"b">>, description |-> d, link |-> l] :
             d \in FnDescriptions, l \in FnLinks}

\* what feedparser gives for a timestamp: a parsed date, or None when the
\* text of the element could not be parsed
FnStamps == Days \cup {None}

\* entries with published_parsed and updated_parsed absent, None or a date
FnStampItems ==
    {[title |-> "T", id |-> <<"b">>]}
    \cup {[title |-> "T", id |-> <<"b">>, published_parsed |-> d] : d \in FnStamps}
    \cup {[title |-> "T", id |-> <<"b">>, updated_parsed |-> d] : d \in FnStamps}
    \cup {[title |-> "T", id |-> <<"b">>, published_parsed |-> d, updated_parsed |-> e] :
             d \in FnStamps, e \in FnStamps}

FnInputs ==
    [op : {"in_extract_new_items"}, new_list : SeqsUpTo(FnItems, MaxFnBatch),
     cache : {NoCache} \cup {SomeCache(m) : m \in Dicts(FnCanonIds)},
     dtr : 0..MaxDtr, now : Days]
    \cup [op : {"in_expire"}, cache : Dicts(FnCanonIds \cup {<<"c">>}),
          dtr : 0..MaxDtr, now : Days]
    \cup [op : {"in_item_id"}, tail : RawTails, key : {"id", "link"}]
    \cup [op : {"in_update_maildir"}, item : FnBodyItems, links : BOOLEAN]
    \cup [op : {"in_rss_item_datetime"}, item : FnStampItems, now : Days]

FnInit ==
    /\ NothingRun
    /\ entries = [f \in FeedNames |-> << >>]
    /\ days_to_remember = 0
    /\ fn \in FnInputs

call_extract_new_items ==
    /\ fn.op = "in_extract_new_items"
    /\ fn' = [op |-> "extract_new_items", in |-> fn,
              result |-> extract_new_items(fn.new_list, fn.cache, fn.dtr, fn.now)]
    /\ UNCHANGED mainVars

call_expire ==
    /\ fn.op = "in_expire"
    /\ fn' = [op |-> "expire", in |-> fn,
              result |-> expire(fn.cache, fn.dtr, fn.now)]
    /\ UNCHANGED mainVars

\* item_id of the entry whose id (or link) is http: + tail, and of the one
\* whose id (or link) is https: + tail
SchemeItem(scheme, tail, key) ==
    IF key = "id" THEN [title |-> "T", id |-> scheme \o tail]
                  ELSE [title |-> "T", link |-> scheme \o tail]

call_item_id ==
    /\ fn.op = "in_item_id"
    /\ fn' = [op |-> "item_id", in |-> fn,
              http |-> item_id(SchemeItem(Str_http, fn.tail, fn.key)),
              https |-> item_id(SchemeItem(Str_https, fn.tail, fn.key))]
    /\ UNCHANGED mainVars

\* update_maildir on an empty maildir, and the payload the same entry gets
\* with the other value of feed.links
call_update_maildir ==
    /\ fn.op = "in_update_maildir"
    /\ fn' = [op |-> "update_maildir", in |-> fn,
              result |-> update_maildir(<< >>, fn.item, Day0, fn.links),
              other |-> update_maildir(<< >>, fn.item, Day0, ~fn.links)]
    /\ UNCHANGED mainVars

call_rss_item_datetime ==
    /\ fn.op = "in_rss_item_datetime"
    /\ fn' = [op |-> "rss_item_datetime", in |-> fn,
              result |-> rss_item_datetime(fn.item, fn.now)]
    /\ UNCHANGED mainVars

FnNext ==
    \/ call_extract_new_items
    \/ call_expire
    \/ call_item_id
    \/ call_update_maildir
    \/ call_rss_item_datetime

SpecFn == FnInit /\ [][FnNext]_vars

-----------------------------------------------------------------------------
(* Properties.  Ages are counted on the calendar, by position in the       *)
(* sequence of days Day0, Day0 + 1, ...                                    *)

DayIndex(d) == CHOOSE n \in 0..MaxDay : DayN(n) = d
AgeInDays(now, d) == DayIndex(now) - DayIndex(d)
DateOfString(sdt) == CHOOSE d \in Days : <<d.year, d.month, d.day>> = sdt

IsCached(item, c) == c.present /\ item_id(item) \in DOMAIN c.map
ItemAge(item, now) == AgeInDays(now, rss_item_datetime(item, now))

C6_Expire ==
    fn.op = "expire" =>
        LET c == fn.in.cache
            r == fn.result
            InWindow(l) == AgeInDays(fn.in.now, DateOfString(c[l])) < fn.in.dtr
        IN  /\ DOMAIN r \subseteq DOMAIN c
            /\ \A l \in DOMAIN c : (l \in DOMAIN r) <=> InWindow(l)
            /\ \A l \in DOMAIN r : r[l] = c[l]

\* one entry exactly at the window is dropped while a younger one is kept
C6_Witness ==
    /\ fn.op = "expire"
    /\ fn.in.dtr > 0
    /\ \E l \in DOMAIN fn.in.cache :
          /\ AgeInDays(fn.in.now, DateOfString(fn.in.cache[l])) = fn.in.dtr
          /\ l \notin DOMAIN fn.result
    /\ \E l \in DOMAIN fn.in.cache : l \in DOMAIN fn.result

\* C8: two entries whose raw identifier (id, or link without id) differs
\* only in starting with http: or with https: get the same item_id, so with
\* one of them cached the other is not selected as new.
C8_SchemeInsensitive ==
    fn.op = "item_id" =>
        LET other == SchemeItem(Str_https, fn.in.tail, fn.in.key)
            cached == SomeCache([l \in {fn.http} |-> strftime(Day0)])
        IN  /\ fn.http = fn.https
            /\ extract_new_items(<<other>>, cached, 1, Day0) = << >>

-----------------------------------------------------------------------------

FileIds(file) == {e[1] : e \in file.data}
InFeedPhase(p) == pc[p] \in {"load", "download", "deliver", "write", "next"}

\* C1: while nothing has failed (and no pass ran over midnight), no entry of
\* a feed that keeps serving the same entries is delivered more than once.
C1_NoRedelivery ==
    (faults = 0 /\ ~straddled) =>
        \A f \in FeedNames : \A i, j \in 1..Len(maildir[f]) :
            maildir[f][i].item = maildir[f][j].item => i = j

\* C2: when delivery fails on the k-th new entry, the persisted cache holds
\* the ids of the new entries 1..k-1 and none of the ids of k..n.
C2_FailedDeliveryPersistsPrefix ==
    \A p \in Procs :
        outcome[p] = "crash_deliver" =>
            LET ids == FileIds(cacheFile[CurFeed(p)])
                ne == new_entries[p]
            IN  /\ \A i \in 1..(k[p] - 1) : item_id(ne[i]) \in ids
                /\ \A i \in k[p]..Len(ne) : item_id(ne[i]) \notin ids

\* C3: a run that finds the cache file of a feed malformed still processes
\* every other configured feed.
C3_MalformedCacheOtherFeeds ==
    \A p \in Procs :
        outcome[p] = "crash_load" => done[p] = FeedNames \ {CurFeed(p)}

\* C4: a run in which a delivery fails, or an entry has neither id nor link,
\* still processes every feed configured after that feed.
C4_LaterFeedsProcessed ==
    \A p \in Procs :
        outcome[p] \in {"crash_deliver", "exit_item_id"} =>
            \A i \in (idx[p] + 1)..Len(Feeds) : Feeds[i] \in done[p]

\* rss_feed.cache as load_cache leaves it for a cache file
LoadedCache(file) ==
    IF file.state = "ok" THEN SomeCache(json_loads(file.data)) ELSE NoCache

\* C7: after a pass without failure whose cache was saved (all on one day,
\* nothing having failed before either), extract_new_items on the same
\* entries against the saved cache selects nothing.
C7_IdempotentRerun ==
    \A p \in Procs :
        ( /\ pc[p] = "next"
          /\ faults = 0
          /\ pass[p].fetch = "ok"
          /\ pass[p].save = "ok"
          /\ pass[p].loadDay = today )
        => extract_new_items(entries[CurFeed(p)], LoadedCache(cacheFile[CurFeed(p)]),
                             days_to_remember, today) = << >>

\* C9: at most one process is in the feed loop at a time, and it holds the
\* lock from before its first feed until it ends; a process that finds the
\* lock held ends without entering the loop, and leaves every cache file
\* and maildir as it is.
C9_SingleInstance ==
    /\ [](\A p, q \in Procs : InFeedPhase(p) /\ InFeedPhase(q) => p = q)
    /\ [](\A p \in Procs : InFeedPhase(p) => lock = p)
    /\ [][\A p \in Procs :
            (pc[p] = "idle" /\ lock \notin {NoProc, p}) =>
                /\ pc'[p] = "idle"
                /\ outcome'[p] # outcome[p] =>
                      /\ outcome'[p] = "lock_held"
                      /\ UNCHANGED <<cacheFile, maildir>>]_vars

\* one process is in the feed loop, another found the lock held and ended
C9_Witness ==
    \E p, q \in Procs :
        /\ InFeedPhase(p)
        /\ lock = p
        /\ pc[q] = "idle"
        /\ outcome[q] = "lock_held"

\* C10 as stated: after a pass whose fetch failed (a pass within one day),
\* the cache file holds exactly the entries it held before the pass.
C10_FetchFailureKeepsFile ==
    \A p \in Procs :
        (pc[p] = "next" /\ pass[p].fetch = "failed" /\ pass[p].loadDay = today) =>
            cacheFile[CurFeed(p)] = pass[p].loaded

\* C10 amended: after a pass whose fetch failed (and whose save did not
\* break off in the middle of the write), the cache file exists iff it did
\* before, no entry is added or changed, every entry (id, D) with
\* today - D < days_to_remember is still there, and after a successful save
\* the entries with today - D >= days_to_remember are gone.
C10_FetchFailurePrunesOnly ==
    \A p \in Procs :
        (pc[p] = "next" /\ pass[p].fetch = "failed" /\ pass[p].save # "partial") =>
            LET old == pass[p].loaded
                new == cacheFile[CurFeed(p)]
                InWindow(e) == AgeInDays(pass[p].saveDay, DateOfString(e[2]))
                                   < days_to_remember
            IN  /\ new.state = old.state
                /\ new.data \subseteq old.data
                /\ \A e \in old.data : InWindow(e) => e \in new.data
                /\ pass[p].save = "ok" => \A e \in new.data : InWindow(e)

\* a fetch failure after which the save removed an expired entry
C10_Witness ==
    \E p \in Procs :
        /\ pc[p] = "next"
        /\ pass[p].fetch = "failed"
        /\ pass[p].save = "ok"
        /\ cacheFile[CurFeed(p)].data # pass[p].loaded.data

-----------------------------------------------------------------------------

\* the entries of a batch that are not in cache c and younger than the window
NewOf(batch, c, dtr, now) ==
    LET IsNew(item) == ~IsCached(item, c) /\ ItemAge(item, now) < dtr
    IN  SelectSeq(batch, IsNew)

\* the last n messages of a maildir
LastMessages(md, n) == SubSeq(md, Len(md) - n + 1, Len(md))

\* C11: a fetch failure of a feed does not end the run and delivers nothing:
\* the step of the failure goes on to write_cache, for the rest of that pass
\* the feed's maildir stays as it is, the run goes on with the next feed and
\* can only end as a complete run; and every pass whose fetch succeeds (the
\* passes of later runs included) ends with each entry that was not in the
\* loaded cache and is younger than the window delivered, in order.
C11_FetchFailureRecoverable ==
    /\ [][\A p \in Procs :
            (pass[p].fetch # "failed" /\ pass'[p].fetch = "failed") =>
                /\ pc'[p] = "write"
                /\ UNCHANGED maildir]_vars
    /\ [][\A p \in Procs :
            (pass[p].fetch = "failed" /\ pass'[p].fetch = "failed") =>
                /\ maildir'[pass[p].feed] = maildir[pass[p].feed]
                /\ pc'[p] = "idle" => (outcome'[p] = "done" /\ done'[p] = FeedNames)
                /\ pc'[p] = "load" => Feeds[idx'[p] - 1] = pass[p].feed]_vars
    /\ [](\A p \in Procs :
            (pc[p] = "next" /\ pass[p].fetch = "ok" /\ pass[p].loadDay = today) =>
                LET f == CurFeed(p)
                    sel == NewOf(entries[f], LoadedCache(pass[p].loaded),
                                 days_to_remember, today)
                IN  /\ Len(maildir[f]) >= Len(sel)
                    /\ \A i \in 1..Len(sel) :
                          LastMessages(maildir[f], Len(sel))[i].item = sel[i])

\* the second run has passed F with a successful fetch and delivered F's
\* first message, while G got its message in the first run and one failure
\* has happened: the first run passed F without delivering and without
\* ending, which (F serving the same entries, none of them cached then) is
\* the pass whose fetch failed.
C11_Witness ==
    \E p \in Procs :
        /\ runs = 2
        /\ faults = 1
        /\ pc[p] = "next"
        /\ idx[p] = 1
        /\ pass[p].fetch = "ok"
        /\ new_entries[p] # << >>
        /\ Len(maildir["F"]) = Len(new_entries[p])
        /\ Len(maildir["G"]) = 1

-----------------------------------------------------------------------------

EndsWith(s, suffix) ==
    /\ Len(s) >= Len(suffix)
    /\ SubSeq(s, Len(s) - Len(suffix) + 1, Len(s)) = suffix

\* C12: the payload is the rendering of the description (only when the
\* entry has a description) followed by the entry's link as the last line
\* (only when the entry has a link), with exactly one newline between the
\* two; the link line is there iff the entry has a link, whatever
\* feed.links is, and feed.links changes the rendering of the description
\* only.
C12_MessageBody ==
    fn.op = "update_maildir" =>
        LET item == fn.in.item
            hasD == "description" \in DOMAIN item
            hasL == "link" \in DOMAIN item
            body == [l \in BOOLEAN |-> IF l = fn.in.links THEN fn.result[1].body
                                       ELSE fn.other[1].body]
            beforeLink(l) == SubSeq(body[l], 1, Len(body[l]) - Len(item.link))
        IN  /\ Len(fn.result) = 1 /\ Len(fn.other) = 1
            /\ \A l \in BOOLEAN :
                  IF hasL
                  THEN /\ EndsWith(body[l], item.link)
                       /\ beforeLink(l) = IF hasD
                                          THEN html2text_handle(item.description, l)
                                                   \o <<"\n">>
                                          ELSE << >>
                  ELSE body[l] = IF hasD THEN html2text_handle(item.description, l)
                                 ELSE << >>
            /\ ~hasD => body[TRUE] = body[FALSE]

\* an entry with a hyperlink in its description and a link, built without
\* links: the payload ends with the link and differs from the one built
\* with links
C12_Witness ==
    /\ fn.op = "update_maildir"
    /\ ~fn.in.links
    /\ "description" \in DOMAIN fn.in.item
    /\ "link" \in DOMAIN fn.in.item
    /\ fn.in.item.link # << >>
    /\ EndsWith(fn.result[1].body, <<"\n">> \o fn.in.item.link)
    /\ fn.result[1].body # fn.other[1].body

-----------------------------------------------------------------------------

\* the messages added to the maildir of the feed of p in its current pass
DeliveredInPass(p) == LastMessages(maildir[CurFeed(p)], k[p] - 1)

\* C13: in one pass over one feed no two messages are delivered for the same
\* canonical identifier, whatever the batch.
C13_OncePerIdPerPass ==
    \A p \in Procs :
        (pc[p] \in {"deliver", "write", "next"} /\ pass[p].fetch = "ok") =>
            \A i, j \in 1..Len(DeliveredInPass(p)) :
                item_id(DeliveredInPass(p)[i].item) = item_id(DeliveredInPass(p)[j].item)
                    => i = j

-----------------------------------------------------------------------------

Range(q) == {q[i] : i \in 1..Len(q)}

\* the entries extract_new_items would select for feed f if its pass started now
SelectedNow(f) ==
    Range(extract_new_items(entries[f], LoadedCache(cacheFile[f]),
                            days_to_remember, today))

\* the delivery of new entry k[p] failed and the process has ended
DeliveryFailed(p) == outcome[p] = "crash_deliver" /\ pc[p] = "idle"

-----------------------------------------------------------------------------

\* p is in the delivery phase of a pass, or past it, or ended in it
Delivering(p) ==
    \/ pc[p] \in {"deliver", "write", "next"} /\ pass[p].fetch = "ok"
    \/ DeliveryFailed(p)

\* the identifiers of the cache a pass loaded
LoadedIds(p) == FileIds(pass[p].loaded)

\* C15: within a pass the new entries are delivered in the order of the
\* batch; between two deliveries feed.cache holds, besides what was loaded,
\* exactly the identifiers of the entries delivered so far (each recorded in
\* the iteration that delivered it, none when the delivery failed); and the
\* cache file is written only by write_cache after the last delivery, until
\* then it is as the pass loaded it.
C15_PassOrder ==
    /\ [](\A p \in Procs :
            Delivering(p) =>
                LET f == CurFeed(p)
                    ne == new_entries[p]
                    InNew(item) == item \in Range(ne)
                IN  /\ ne = SelectSeq(entries[f], InNew)
                    /\ Len(DeliveredInPass(p)) = k[p] - 1
                    /\ \A i \in 1..(k[p] - 1) : DeliveredInPass(p)[i].item = ne[i]
                    /\ cache[p][f].present =>
                          DOMAIN cache[p][f].map =
                              LoadedIds(p) \cup {item_id(ne[i]) : i \in 1..(k[p] - 1)}
                    /\ pc[p] \in {"deliver", "write"} => cacheFile[f] = pass[p].loaded)
    /\ [][\A f \in FeedNames :
            /\ cacheFile'[f] # cacheFile[f] =>
                  \E p \in Procs :
                      /\ pc[p] = "write" /\ pc'[p] = "next" /\ CurFeed(p) = f
                      /\ pass[p].fetch = "ok" => k[p] = Len(new_entries[p]) + 1
                      /\ UNCHANGED <<maildir, cache>>
            /\ maildir'[f] # maildir[f] =>
                  \E p \in Procs :
                      /\ pc[p] = "deliver" /\ CurFeed(p) = f
                      /\ maildir'[f] = Append(maildir[f], maildir'[f][Len(maildir'[f])])
                      /\ maildir'[f][Len(maildir'[f])].item = new_entries[p][k[p]]
                      /\ k'[p] = k[p] + 1
                      /\ item_id(new_entries[p][k[p]]) \in DOMAIN cache'[p][f].map]_vars

\* between the first and the second of three deliveries: the first entry's
\* identifier is in feed.cache, the second's is not, no cache file is written
C15_Witness ==
    \E p \in Procs :
        /\ pc[p] = "deliver"
        /\ k[p] = 2
        /\ Len(new_entries[p]) = 3
        /\ item_id(new_entries[p][1]) \in DOMAIN cache[p][CurFeed(p)].map
        /\ item_id(new_entries[p][2]) \notin DOMAIN cache[p][CurFeed(p)].map
        /\ cacheFile[CurFeed(p)] = NoFile

-----------------------------------------------------------------------------

\* p has just saved the cache of its feed
JustSaved(p) == pc[p] = "next" /\ pass[p].save = "ok"

\* the "%Y-%m-%d" string sdt is within the window on the day of the save
InWindowAtSave(p, sdt) ==
    AgeInDays(pass[p].saveDay, DateOfString(sdt)) < days_to_remember

\* the identifiers of the entries delivered in the pass of p
DeliveredIds(p) ==
    IF pass[p].fetch = "ok"
    THEN {item_id(new_entries[p][i]) : i \in 1..(k[p] - 1)}
    ELSE {}

\* C16: after a save every entry (id, D) of the cache file has
\* saveDay - D < days_to_remember, every entry of feed.cache that has is in
\* the file, and the identifier of every entry delivered in the pass is in
\* the file.
C16_SavedCache ==
    \A p \in Procs :
        JustSaved(p) =>
            LET f == CurFeed(p)
                m == cache[p][f].map
            IN  /\ \A e \in cacheFile[f].data : InWindowAtSave(p, e[2])
                /\ \A l \in DOMAIN m :
                      InWindowAtSave(p, m[l]) => <<l, m[l]>> \in cacheFile[f].data
                /\ DeliveredIds(p) \subseteq FileIds(cacheFile[f])

-----------------------------------------------------------------------------

\* p is at the end of a pass that found no cache file and delivered nothing
NothingCachedOrDelivered(p) ==
    /\ pc[p] = "next"
    /\ pass[p].loaded = NoFile
    /\ pass[p].fetch = "failed" \/ (pass[p].fetch = "ok" /\ new_entries[p] = << >>)

\* C17: a pass over a feed without cache file that delivers nothing (empty
\* batch, no entry young enough, or fetch failure) writes no cache file.
C17_NoEmptyCacheFile ==
    \A p \in Procs :
        NothingCachedOrDelivered(p) =>
            /\ cacheFile[CurFeed(p)] = NoFile
            /\ pass[p].save = "skipped"

\* a pass without cache file whose batch is not empty but has no entry young
\* enough has ended, and there is no cache file
C17_Witness ==
    \E p \in Procs :
        /\ NothingCachedOrDelivered(p)
        /\ pass[p].fetch = "ok"
        /\ entries[CurFeed(p)] # << >>
        /\ cacheFile[CurFeed(p)].state = "absent"

-----------------------------------------------------------------------------

HasIdlessEntry(f) == \E i \in 1..Len(entries[f]) : item_id_exits(entries[f][i])

\* C18: when an entry of the fetched batch has neither id nor link, nothing
\* of the feed is delivered in that pass and nothing is added to feed.cache
\* or to the cache file: the pass ends in extract_new_items, before the
\* delivery loop, with both as load_cache left them, and no step of a pass
\* before the delivery loop changes the maildir.
C18_IdlessEntryAbortsDelivery ==
    /\ [](\A p \in Procs :
            /\ (outcome[p] = "exit_item_id" /\ pc[p] = "idle") =>
                  /\ HasIdlessEntry(CurFeed(p))
                  /\ cacheFile[CurFeed(p)] = pass[p].loaded
                  /\ cache[p][CurFeed(p)] = LoadedCache(pass[p].loaded)
            /\ (pc[p] \in {"deliver", "write", "next"} /\ pass[p].fetch = "ok") =>
                  ~HasIdlessEntry(CurFeed(p)))
    /\ [][\A p \in Procs :
            pc[p] \in {"load", "download"} => UNCHANGED maildir]_vars

\* the batch [A, N], N without id and link: the process has ended in the
\* pass over F, whose maildir is empty although A is new
C18_Witness ==
    \E p \in Procs :
        /\ outcome[p] = "exit_item_id"
        /\ pc[p] = "idle"
        /\ entries[CurFeed(p)] = <<ItemA, ItemN>>
        /\ days_to_remember > 0
        /\ today = Day0
        /\ maildir[CurFeed(p)] = << >>
        /\ cacheFile[CurFeed(p)] = NoFile

-----------------------------------------------------------------------------

\* the entry has the timestamp key with a value
HasValue(item, key) == key \in DOMAIN item /\ item[key] # None

\* C19: the date of an entry is its published timestamp when that has a
\* value, else its updated timestamp when that has a value, and the current
\* date only when neither has a value; also when published is present
\* without a value and updated has one.
C19_ItemDate ==
    fn.op = "rss_item_datetime" =>
        LET item == fn.in.item
        IN  fn.result = IF HasValue(item, "published_parsed") THEN item.published_parsed
                        ELSE IF HasValue(item, "updated_parsed") THEN item.updated_parsed
                        ELSE fn.in.now

-----------------------------------------------------------------------------

HasScheme(s) == startswith(s, Str_https) \/ startswith(s, Str_http)

\* item_id of the entry whose id (or link) is raw
IdOfRaw(raw, key) == item_id(SchemeItem(<< >>, raw, key))

\* C20: item_id takes the id when the entry has one and the link otherwise,
\* removes exactly one leading "https:" or "http:" and leaves the rest as it
\* is; a raw identifier without such a prefix is returned as it is, and so
\* is a canonical identifier (an identifier item_id returned that has no
\* such prefix).
C20_ItemIdStripsOneScheme ==
    fn.op = "item_id" =>
        LET tail == fn.in.tail
            both == [title |-> "T", id |-> Str_http \o tail, link |-> Url_x]
        IN  /\ fn.http = tail
            /\ fn.https = tail
            /\ item_id(both) = fn.http
            /\ \A raw \in {tail, fn.http, fn.https} :
                  ~HasScheme(raw) => IdOfRaw(raw, fn.in.key) = raw

====
